---- MODULE Spec2Model ----
(***************************************************************************)
(* systest/include/git2-systest-win32.h as seen by the C preprocessor.     *)
(*                                                                         *)
(* The header is twelve lines: an include guard (lines 4, 5, 12), one      *)
(* conditional (lines 7, 10) and inside it a typedef (line 8) and a        *)
(* #define (line 9).  The state is the part of one translation unit's      *)
(* preprocessing and declaration state the header reads or writes: three   *)
(* macros and the list of visible mode_t declarations.  The translation    *)
(* unit is processed one directive at a time; tu is the list of            *)
(* directives processed so far.                                            *)
(***************************************************************************)
EXTENDS Integers, Sequences, FiniteSets

VARIABLES
    MSC_VER,                        \* _MSC_VER is defined (the compiler is MSVC)
    MODE_T_DEFINED,                 \* _MODE_T_DEFINED is defined
    GIT2_SYS_TEST_WIN32_COMPAT_H,   \* the include guard macro is defined
    decls,                          \* the visible declarations of mode_t, in order
    tu,                             \* the directives processed so far, in order
    m                               \* an object `mode_t m` of the translation unit

vars == <<MSC_VER, MODE_T_DEFINED, GIT2_SYS_TEST_WIN32_COMPAT_H, decls, tu, m>>

\* Number of directives of a translation unit.
MaxDirectives == 4

\* Distance of the integer inputs from 0 and from 2^16.
MaxDelta == 1

\* ------------------------------------------------------------------ types

\* Line 8: the type the header names mode_t.  MSVC's unsigned short is 16 bits.
mode_t_signed == [signed |-> TRUE, bits |-> 16]

mode_t == [signed |-> FALSE, bits |-> 16]

\* The type of the collaborator's mode_t: the typedef the header mirrors.
CollaboratorType == [signed |-> FALSE, bits |-> 16]

\* The type of an incompatible mode_t of another component: a signed short.
IncompatibleType == [signed |-> TRUE, bits |-> 16]

\* C's conversion of the integer x to the integer type t.
Convert(t, x) ==
    IF t.signed
    THEN ((x + 2^(t.bits - 1)) % 2^(t.bits)) - 2^(t.bits - 1)
    ELSE x % 2^(t.bits)

\* The integers a translation unit stores into m, and adds to it.
Inputs == (0 - MaxDelta .. MaxDelta) \cup (2^16 - MaxDelta .. 2^16 + MaxDelta)

Deltas == (0 - MaxDelta .. MaxDelta) \ {0}

\* ---------------------------------------------------------------- helpers

Range(s) == {s[i] : i \in 1..Len(s)}

Count(s, d) == Cardinality({i \in 1..Len(s) : s[i] = d})

\* The declarations of mode_t this header has contributed.
HeaderDecls == Cardinality({i \in 1..Len(decls) : decls[i].by = "header"})

\* Two visible declarations of mode_t in one translation unit.
Conflict == Len(decls) >= 2

\* The directive d is processed next.
Step(d) ==
    /\ Len(tu) < MaxDirectives
    /\ tu' = Append(tu, d)

\* --------------------------------------------------------------- the header

\* Line 4: #ifndef GIT2_SYS_TEST_WIN32_COMPAT_H
GuardMissing == TRUE

GuardUndefined == ~GIT2_SYS_TEST_WIN32_COMPAT_H

\* Line 7: #if defined(_MSC_VER) && !defined(_MODE_T_DEFINED)
ConditionIgnoresFlag == MSC_VER

ConditionIgnoresCompiler == ~MODE_T_DEFINED

CompatCondition == MSC_VER /\ ~MODE_T_DEFINED

\* Lines 8 and 9: typedef unsigned short mode_t; #define _MODE_T_DEFINED
DeclareWithoutFlag ==
    /\ decls' = Append(decls, [by |-> "header", type |-> mode_t])
    /\ UNCHANGED MODE_T_DEFINED

DeclareModeT ==
    /\ decls' = Append(decls, [by |-> "header", type |-> mode_t])
    /\ MODE_T_DEFINED' = TRUE

\* #include "git2-systest-win32.h": lines 4 to 12.
Include ==
    /\ Step("include")
    /\ IF GuardUndefined
       THEN /\ GIT2_SYS_TEST_WIN32_COMPAT_H' = TRUE
            /\ IF CompatCondition
               THEN DeclareModeT
               ELSE UNCHANGED <<decls, MODE_T_DEFINED>>
       ELSE UNCHANGED <<GIT2_SYS_TEST_WIN32_COMPAT_H, decls, MODE_T_DEFINED>>
    /\ UNCHANGED <<MSC_VER, m>>

\* ------------------------------------------------------- the other components

\* A well-behaved collaborator header (libgit2's msvc-compat.h, which the
\* header mirrors): it declares mode_t only when the flag is unset, and sets it.
Collaborator ==
    /\ Step("collab")
    /\ IF ~MODE_T_DEFINED
       THEN /\ decls' = Append(decls, [by |-> "collab", type |-> CollaboratorType])
            /\ MODE_T_DEFINED' = TRUE
       ELSE UNCHANGED <<decls, MODE_T_DEFINED>>
    /\ UNCHANGED <<MSC_VER, GIT2_SYS_TEST_WIN32_COMPAT_H, m>>

\* A component that declares mode_t and does not set the flag.
Rogue ==
    /\ Step("rogue")
    /\ decls' = Append(decls, [by |-> "rogue", type |-> IncompatibleType])
    /\ UNCHANGED <<MSC_VER, MODE_T_DEFINED, GIT2_SYS_TEST_WIN32_COMPAT_H, m>>

\* The translation unit defines its own mode_t, once, and sets the flag; it
\* does not test the flag first.
Own ==
    /\ "own" \notin Range(tu)
    /\ Step("own")
    /\ decls' = Append(decls, [by |-> "own", type |-> CollaboratorType])
    /\ MODE_T_DEFINED' = TRUE
    /\ UNCHANGED <<MSC_VER, GIT2_SYS_TEST_WIN32_COMPAT_H, m>>

\* #define _MODE_T_DEFINED (or -D_MODE_T_DEFINED) with no declaration.
DefineFlag ==
    /\ Step("define")
    /\ MODE_T_DEFINED' = TRUE
    /\ UNCHANGED <<MSC_VER, GIT2_SYS_TEST_WIN32_COMPAT_H, decls, m>>

\* #undef _MODE_T_DEFINED
UndefFlag ==
    /\ Step("undef")
    /\ MODE_T_DEFINED' = FALSE
    /\ UNCHANGED <<MSC_VER, GIT2_SYS_TEST_WIN32_COMPAT_H, decls, m>>

\* --------------------------------------------------------- uses of the type

\* The type the name mode_t resolves to; the unit compiles with one declaration.
Resolves == Len(decls) = 1

\* mode_t m = x;
Assign ==
    /\ Resolves
    /\ Step("assign")
    /\ \E x \in Inputs :
          m' = [set |-> TRUE, expr |-> x, val |-> Convert(decls[1].type, x)]
    /\ UNCHANGED <<MSC_VER, MODE_T_DEFINED, GIT2_SYS_TEST_WIN32_COMPAT_H, decls>>

\* m = m + k;
Add ==
    /\ Resolves
    /\ m.set
    /\ Step("add")
    /\ \E k \in Deltas :
          m' = [set |-> TRUE, expr |-> m.val + k,
                val |-> Convert(decls[1].type, m.val + k)]
    /\ UNCHANGED <<MSC_VER, MODE_T_DEFINED, GIT2_SYS_TEST_WIN32_COMPAT_H, decls>>

\* ------------------------------------------------------------ specification

\* The start of a translation unit, under either compiler family.
Init ==
    /\ MSC_VER \in BOOLEAN
    /\ MODE_T_DEFINED = FALSE
    /\ GIT2_SYS_TEST_WIN32_COMPAT_H = FALSE
    /\ decls = <<>>
    /\ tu = <<>>
    /\ m = [set |-> FALSE, expr |-> 0, val |-> 0]

Next ==
    \/ Include
    \/ Collaborator
    \/ Rogue
    \/ Own
    \/ DefineFlag
    \/ UndefFlag
    \/ Assign
    \/ Add

Spec == Init /\ [][Next]_vars

\* ------------------------------------------------------------ the claims

\* The step is an inclusion of the header.
IncludeStep == tu' = Append(tu, "include")

\* The header has been included before.
Included == "include" \in Range(tu)

\* The flag was set when the header was first included: a directive that sets
\* it precedes the first inclusion, with no #undef between the two.
FlagSetBeforeFirstInclude ==
    \E i \in 1..Len(tu) :
        /\ tu[i] = "include"
        /\ \A j \in 1..(i - 1) : tu[j] # "include"
        /\ \E j \in 1..(i - 1) :
              /\ tu[j] \in {"collab", "own", "define"}
              /\ \A k \in (j + 1)..(i - 1) : tu[k] # "undef"

\* C1: however often the header is included, and whatever the compiler and
\* the flag were, the header contributes at most one declaration of mode_t.
C1_AtMostOneDeclaration == HeaderDecls <= 1

\* The header was included at least twice and declared mode_t once, with the
\* flag cleared between two inclusions.
C1_Witness ==
    /\ HeaderDecls = 1
    /\ \E i, j, k \in 1..Len(tu) :
          i < j /\ j < k /\ tu[i] = "include" /\ tu[j] = "undef" /\ tu[k] = "include"

\* C2: under MSVC, when the flag is set before the first inclusion, the
\* header adds no declaration of mode_t, however often it is included.
C2_FlagSetAddsNothing ==
    (MSC_VER /\ FlagSetBeforeFirstInclude) => HeaderDecls = 0

\* Under MSVC the header was included twice after another component declared
\* mode_t and set the flag; that declaration is the only one.
C2_Witness ==
    /\ MSC_VER
    /\ FlagSetBeforeFirstInclude
    /\ Count(tu, "include") >= 2
    /\ Len(decls) = 1
    /\ decls[1].by # "header"

\* C3 as stated: under another compiler an inclusion introduces nothing, no
\* declaration of mode_t and no macro.
C3_Original ==
    [][(IncludeStep /\ ~MSC_VER) =>
          UNCHANGED <<decls, MODE_T_DEFINED, GIT2_SYS_TEST_WIN32_COMPAT_H>>]_vars

\* C3, amended: under another compiler an inclusion adds no declaration of
\* mode_t, produces no conflict and leaves _MODE_T_DEFINED as it was; the only
\* macro that becomes defined is the include guard.
C3_OnlyGuardDefined ==
    [][(IncludeStep /\ ~MSC_VER) =>
          /\ UNCHANGED <<decls, MODE_T_DEFINED>>
          /\ Conflict' = Conflict
          /\ GIT2_SYS_TEST_WIN32_COMPAT_H']_vars

\* Under another compiler the header was included with the flag unset.
C3_Witness ==
    /\ ~MSC_VER
    /\ Included
    /\ ~MODE_T_DEFINED
    /\ GIT2_SYS_TEST_WIN32_COMPAT_H
    /\ decls = <<>>

\* C4: under MSVC, the first inclusion with the flag unset declares mode_t
\* exactly once and sets the flag; after it mode_t is visible.
C4_FirstInclusionDeclares ==
    [][(IncludeStep /\ ~Included /\ MSC_VER /\ ~MODE_T_DEFINED) =>
          /\ Len(decls') = Len(decls) + 1
          /\ decls'[Len(decls')] = [by |-> "header", type |-> [signed |-> FALSE, bits |-> 16]]
          /\ SubSeq(decls', 1, Len(decls)) = decls
          /\ MODE_T_DEFINED']_vars

\* The first inclusion under MSVC found the flag unset and declared mode_t.
C4_Witness ==
    /\ MSC_VER
    /\ tu = <<"include">>
    /\ HeaderDecls = 1
    /\ MODE_T_DEFINED

\* C5: every value of the mode_t this header declares lies in 0..65535, and
\* a stored result is the mathematical result modulo 2^16.
C5_Unsigned16 ==
    (m.set /\ decls[1].by = "header") =>
        /\ m.val \in 0..65535
        /\ m.val = m.expr % 65536

\* An addition to a mode_t of the header wrapped around.
C5_Witness ==
    /\ m.set
    /\ decls[1].by = "header"
    /\ tu[Len(tu)] = "add"
    /\ m.expr \notin 0..65535
    /\ m.val \in {0, 65535}

\* C6 as stated: a conflict arises only if another component declared mode_t
\* without setting the flag.
C6_Original == Conflict => "rogue" \in Range(tu)

\* C6, amended: a conflict arises only if another component did not honor the
\* flag: it declared mode_t without setting the flag, or without testing it,
\* or it cleared the flag.
C6_ConflictOnlyIfFlagNotHonored ==
    Conflict => (Range(tu) \cap {"rogue", "own", "undef"}) # {}

\* The header and a component that ignores the flag both declared mode_t.
C6_Witness ==
    /\ Conflict
    /\ HeaderDecls = 1
    /\ "rogue" \notin Range(tu)

\* C7: once the header has been included, a later inclusion changes neither
\* the declarations nor the flag, also when the flag was cleared in between.
C7_ProcessedOnce ==
    [][(IncludeStep /\ Included) => UNCHANGED <<decls, MODE_T_DEFINED>>]_vars

\* Under MSVC the header was included, the flag cleared, and the header
\* included again: the flag is still unset.
C7_Witness ==
    /\ MSC_VER
    /\ ~MODE_T_DEFINED
    /\ Len(tu) >= 3
    /\ tu[Len(tu)] = "include"
    /\ tu[Len(tu) - 1] = "undef"
    /\ tu[1] = "include"

\* C8: under MSVC a translation unit of inclusions of the header and of a
\* well-behaved collaborator, both included, in any order and repetition, has
\* exactly one declaration of mode_t, an unsigned 16-bit type, and the flag set.
C8_OrderIndependent ==
    (/\ MSC_VER
     /\ Range(tu) = {"include", "collab"}) =>
        /\ Len(decls) = 1
        /\ decls[1].type = [signed |-> FALSE, bits |-> 16]
        /\ MODE_T_DEFINED
        /\ GIT2_SYS_TEST_WIN32_COMPAT_H

\* Both orders of the two inclusions have been processed, each repeated.
C8_Witness ==
    /\ MSC_VER
    /\ Range(tu) = {"include", "collab"}
    /\ Len(tu) >= 4
    /\ decls[1].by = "header"

\* C9: while no component clears the flag, a declaration by the header
\* implies that the flag is set and the compiler is MSVC; and an inclusion
\* declares mode_t exactly when it sets the flag.
C9_DeclaredIffFlagSet ==
    /\ []((HeaderDecls >= 1 /\ "undef" \notin Range(tu)) => (MODE_T_DEFINED /\ MSC_VER))
    /\ [][IncludeStep =>
            /\ HeaderDecls' \in {HeaderDecls, HeaderDecls + 1}
            /\ (HeaderDecls' = HeaderDecls + 1) <=> (~MODE_T_DEFINED /\ MODE_T_DEFINED')
            /\ MODE_T_DEFINED => MODE_T_DEFINED']_vars

\* The header declared mode_t and set the flag; nothing cleared it.
C9_Witness ==
    /\ HeaderDecls = 1
    /\ "undef" \notin Range(tu)
    /\ MODE_T_DEFINED
    /\ Len(tu) >= 2

\* C10: an inclusion always leaves the guard defined; and once the header has
\* been included without declaring mode_t, no later step makes it declare.
C10_GuardUnconditional ==
    [][/\ IncludeStep => GIT2_SYS_TEST_WIN32_COMPAT_H'
       /\ (Included /\ HeaderDecls = 0) => HeaderDecls' = 0]_vars

\* Under MSVC the first inclusion found the flag set and declared nothing;
\* the flag was then cleared and the header included again, declaring nothing.
C10_Witness ==
    /\ MSC_VER
    /\ HeaderDecls = 0
    /\ ~MODE_T_DEFINED
    /\ GIT2_SYS_TEST_WIN32_COMPAT_H
    /\ Len(tu) = 4
    /\ tu[2] = "include"
    /\ tu[3] = "undef"
    /\ tu[4] = "include"

====
